---- MODULE Spec2Model ----
(***************************************************************************)
(* Cart reconciliation of Choy Apparel's frontend: CartProvider (cart      *)
(* store, persistence write-through, merge on login, debounced diff sync)  *)
(* and AuthProvider (session, on-demand refresh) of                        *)
(* src/frontend/src/context/CartContext.tsx, over the fetch wrapper        *)
(* apiRequest of src/unnamed/part_001.                                     *)
(*                                                                         *)
(* One step of the model is one JavaScript task: an event handler or the   *)
(* continuation of an await, together with the React render and the        *)
(* effects that its state updates cause.                                   *)
(***************************************************************************)
EXTENDS Integers, Sequences, FiniteSets, TLC

\* ---------------------------------------------------------------- bounds
ProductOrder == <<"A", "B">>
Products == {ProductOrder[i] : i \in 1..Len(ProductOrder)}
\* largest quantity a single UI operation passes
MaxQty == 1
\* events from outside (clicks and firings of the renewal interval) in one
\* behaviour
MaxOps == 4
\* network calls that do not succeed in one behaviour
MaxFaults == 1
\* clock ticks in one behaviour
MaxTicks == 2
\* loadCart invocations awaiting the network at the same time
MaxLoads == 2
\* refreshToken invocations awaiting the network at the same time
MaxRefreshes == 1
\* events from outside in a behaviour that starts with a return to a session
ReturnOps == 2
\* createOrder calls in flight at the same time
MaxOrders == 1
\* events from outside after a page load with any stored cart record
StoredOps == 2
\* events from outside after a guest's page load
GuestOps == 3
\* events from outside in a behaviour checked for what happens in the end
LiveOps == 3
\* events from outside in a behaviour with page reloads
ReloadOps == 3
\* events from outside in a behaviour with checkouts
CheckoutOps == 3
\* ------------------------------------------------------ program constants
\* refreshToken: now - lastRefreshAttempt < 2000
Cooldown == 2000
\* length of one clock tick in ms: two ticks make one cooldown window
TickMs == Cooldown \div 2

\* ------------------------------------------------------------ cart values
\* CartItem {product, quantity}: the product is modelled by its id.
Item(id, q) == [id |-> id, q |-> q]

HasId(arr, id) == \E i \in 1..Len(arr) : arr[i].id = id

\* quantity of the first item with this id, 0 when there is none
QtyOf(arr, id) ==
    IF HasId(arr, id)
    THEN arr[CHOOSE i \in 1..Len(arr) :
                 arr[i].id = id /\ \A j \in 1..(i - 1) : arr[j].id # id].q
    ELSE 0

RECURSIVE AddToId(_, _, _)
\* currentItems.map(item => item.product.id === id
\*                          ? {...item, quantity: item.quantity + quantity} : item)
AddToId(arr, id, quantity) ==
    IF arr = <<>> THEN <<>>
    ELSE <<IF Head(arr).id = id THEN Item(id, Head(arr).q + quantity) ELSE Head(arr)>>
         \o AddToId(Tail(arr), id, quantity)

\* a map that adds the quantity where it should set it
SetForIdAdds(arr, id, quantity) == AddToId(arr, id, quantity)

RECURSIVE SetForId(_, _, _)
\* currentItems.map(item => item.product.id === id ? {...item, quantity} : item)
SetForId(arr, id, quantity) ==
    IF arr = <<>> THEN <<>>
    ELSE <<IF Head(arr).id = id THEN Item(id, quantity) ELSE Head(arr)>>
         \o SetForId(Tail(arr), id, quantity)

\* a filter that keeps every item
FilterOutKeepsAll(arr, id) == arr

RECURSIVE FilterOut(_, _)
\* currentItems.filter(item => item.product.id !== productId)
FilterOut(arr, id) ==
    IF arr = <<>> THEN <<>>
    ELSE (IF Head(arr).id = id THEN <<>> ELSE <<Head(arr)>>) \o FilterOut(Tail(arr), id)

\* addItem without its search for an existing item
addItemAlwaysAppends(cur, id, quantity) == Append(cur, Item(id, quantity))

addItemUpdater(cur, id, quantity) ==
    IF HasId(cur, id) THEN AddToId(cur, id, quantity) ELSE Append(cur, Item(id, quantity))

removeItemUpdater(cur, id) == FilterOut(cur, id)

\* updateQuantity without its quantity <= 0 branch
updateQuantityNoRemoval(cur, id, quantity) == SetForId(cur, id, quantity)

updateQuantityUpdater(cur, id, quantity) ==
    IF quantity <= 0 THEN removeItemUpdater(cur, id) ELSE SetForId(cur, id, quantity)

\* ---------------------------------------------------- durable cart record
\* localStorage 'cart': absent, a JSON text of an item array, or a text that
\* JSON.parse rejects.  The JSON text lists <<id, quantity>> pairs.
NoRecord == [present |-> FALSE, ok |-> TRUE, arr |-> <<>>]

RECURSIVE ToPairs(_)
ToPairs(arr) ==
    IF arr = <<>> THEN <<>> ELSE <<<<Head(arr).id, Head(arr).q>>>> \o ToPairs(Tail(arr))

RECURSIVE FromPairs(_)
FromPairs(ps) ==
    IF ps = <<>> THEN <<>> ELSE <<Item(Head(ps)[1], Head(ps)[2])>> \o FromPairs(Tail(ps))

\* JSON.stringify(items)
Stringify(arr) == [present |-> TRUE, ok |-> TRUE, arr |-> ToPairs(arr)]

\* a read that takes every record for a corrupt one
ReadStoredCartDropsRecord(rec) == [cart |-> <<>>, rec |-> NoRecord]

\* loadCart's read of the record: [cart, rec] -- the parsed cart and the
\* record as the read leaves it (a corrupt record is removed)
ReadStoredCart(rec) ==
    IF ~rec.present THEN [cart |-> <<>>, rec |-> rec]
    ELSE IF rec.ok THEN [cart |-> FromPairs(rec.arr), rec |-> rec]
    ELSE [cart |-> <<>>, rec |-> NoRecord]

\* ------------------------------------------------------------ the backend
\* The backend's cart is a quantity per product, 0 for an absent product.
\* fetch-cart lists the items in product order.
RECURSIVE ListCart(_, _)
ListCart(srv, order) ==
    IF order = <<>> THEN <<>>
    ELSE (IF srv[Head(order)] > 0 THEN <<Item(Head(order), srv[Head(order)])>> ELSE <<>>)
         \o ListCart(srv, Tail(order))

FetchCart(srv) == ListCart(srv, ProductOrder)

RECURSIVE MergeInto(_, _)
\* merge-cart(items): quantities sum for shared ids, other items are added
MergeInto(srv, guest) ==
    IF guest = <<>> THEN srv
    ELSE MergeInto([srv EXCEPT ![Head(guest).id] = @ + Head(guest).q], Tail(guest))

\* add-item adds to the product's quantity, update-quantity sets it,
\* remove-item deletes the product
ApplyCall(srv, call) ==
    CASE call.kind = "add"    -> [srv EXCEPT ![call.id] = @ + call.q]
      [] call.kind = "update" -> [srv EXCEPT ![call.id] = call.q]
      [] call.kind = "remove" -> [srv EXCEPT ![call.id] = 0]

\* ---------------------------------------------------------- the sync diff
Call(kind, id, q) == [kind |-> kind, id |-> id, q |-> q]

\* quantity of the last item with this id (Map.set overwrites the value)
LastQtyOf(arr, id) ==
    arr[CHOOSE i \in 1..Len(arr) :
            arr[i].id = id /\ \A j \in (i + 1)..Len(arr) : arr[j].id # id].q

RECURSIVE FirstIds(_, _)
FirstIds(arr, seen) ==
    IF arr = <<>> THEN <<>>
    ELSE IF Head(arr).id \in seen THEN FirstIds(Tail(arr), seen)
    ELSE <<Head(arr).id>> \o FirstIds(Tail(arr), seen \cup {Head(arr).id})

RECURSIVE EntriesOf(_, _)
EntriesOf(ids, arr) ==
    IF ids = <<>> THEN <<>>
    ELSE <<Item(Head(ids), LastQtyOf(arr, Head(ids)))>> \o EntriesOf(Tail(ids), arr)

\* mapByProductId: the entries of the Map in insertion order
mapByProductId(arr) == EntriesOf(FirstIds(arr, {}), arr)

RECURSIVE RemovedCalls(_, _)
\* first loop: ids of lastMap that currentMap does not have
RemovedCalls(lastMap, currentMap) ==
    IF lastMap = <<>> THEN <<>>
    ELSE (IF ~HasId(currentMap, Head(lastMap).id)
          THEN <<Call("remove", Head(lastMap).id, 0)>> ELSE <<>>)
         \o RemovedCalls(Tail(lastMap), currentMap)

RECURSIVE UpsertCallsNoCompare(_, _)
\* the second loop without its quantity comparison
UpsertCallsNoCompare(lastMap, currentMap) ==
    IF currentMap = <<>> THEN <<>>
    ELSE (IF ~HasId(lastMap, Head(currentMap).id)
          THEN <<Call("add", Head(currentMap).id, Head(currentMap).q)>>
          ELSE <<Call("update", Head(currentMap).id, Head(currentMap).q)>>)
         \o UpsertCallsNoCompare(lastMap, Tail(currentMap))

RECURSIVE UpsertCalls(_, _)
\* second loop: ids of currentMap that are new or whose quantity differs
UpsertCalls(lastMap, currentMap) ==
    IF currentMap = <<>> THEN <<>>
    ELSE (IF ~HasId(lastMap, Head(currentMap).id)
          THEN <<Call("add", Head(currentMap).id, Head(currentMap).q)>>
          ELSE IF QtyOf(lastMap, Head(currentMap).id) # Head(currentMap).q
          THEN <<Call("update", Head(currentMap).id, Head(currentMap).q)>>
          ELSE <<>>)
         \o UpsertCalls(lastMap, Tail(currentMap))

\* the two loops in the opposite order
SyncCallsUpsertsFirst(lastSyncedItems, currentItems) ==
    LET lastMap == mapByProductId(lastSyncedItems)
        currentMap == mapByProductId(currentItems)
    IN  UpsertCalls(lastMap, currentMap) \o RemovedCalls(lastMap, currentMap)

\* the calls syncCartToBackend issues, in order, when none of them rejects
SyncCalls(lastSyncedItems, currentItems) ==
    LET lastMap == mapByProductId(lastSyncedItems)
        currentMap == mapByProductId(currentItems)
    IN  RemovedCalls(lastMap, currentMap) \o UpsertCalls(lastMap, currentMap)

\* ------------------------------------------------------------------ state
VARIABLES
    items,              \* CartProvider: useState items
    syncingRef,         \* CartProvider: syncingRef.current
    initialLoadRef,     \* CartProvider: initialLoadRef.current
    lastSyncedItemsRef, \* CartProvider: lastSyncedItemsRef.current (the baseline)
    debounceTimeout,    \* the pending setTimeout of the sync effect: <<>> or <<items it captured>>
    cycles,             \* syncCartToBackend invocations awaiting a call
    loads,              \* loadCart invocations awaiting a call
    cartLS,             \* localStorage 'cart'
    cartMerged,         \* localStorage 'cartMerged' = 'true'
    checkoutComplete,   \* localStorage 'checkoutComplete' = 'true'
    clears,             \* ordersService.clearCart calls in flight
    server,             \* the backend's cart of this user
    user,               \* AuthProvider: useState user
    authTokens,         \* localStorage 'authTokens'
    userLS,             \* localStorage 'user' is present
    lastRefreshAttempt, \* AuthProvider: useState lastRefreshAttempt
    refreshes,          \* refreshToken / attemptTokenRefresh invocations awaiting a call
    orders,             \* processCheckout invocations awaiting createOrder
    isInitialized,      \* AuthProvider: useState isInitialized; CartProvider is mounted
                        \* once it is true
    refreshTimer,       \* AuthProvider: useState refreshTimer, 0 for null
    intervals,          \* the browser's live intervals: [id, seen], seen being the
                        \* refreshTimer of the render whose closure the callback holds
    timerSeq,           \* the id setInterval returned last
    now,                \* Date.now()
    clicks,             \* events from outside so far
    faults,             \* calls that did not succeed so far
    mergesApplied,      \* history: merge pushes of this login lifetime the backend applied
    mergeOkInLife,      \* history: a merge push of this login lifetime returned a success
    aborted,            \* history: <<>> or <<the sync cycle a rejection aborted last>>
    lastCallAt,         \* history: start time of the latest refreshToken call, -1 for none
    lastFullAt,         \* history: the same for the latest call that was not rate-limited
    ev                  \* history: the step just taken

vars == <<items, syncingRef, initialLoadRef, lastSyncedItemsRef, debounceTimeout, cycles,
          loads, cartLS, cartMerged, checkoutComplete, clears, server, user, authTokens,
          userLS, lastRefreshAttempt, refreshes, orders, isInitialized, refreshTimer, intervals, timerSeq,
          now, clicks, faults, mergesApplied,
          mergeOkInLife, aborted, lastCallAt, lastFullAt, ev>>

NoTokens == [present |-> FALSE, access |-> FALSE, refresh |-> FALSE]

Event(name, res) ==
    [name |-> name, res |-> res, cyc |-> <<>>, load |-> <<>>, toast |-> "none",
     by |-> "none"]

\* an invocation of refreshToken, attemptTokenRefresh or loadUser awaiting a
\* call: by names the entry point, seen the refreshTimer of the render whose
\* clearAuthState it holds
Refresh(pc, by, seen) == [pc |-> pc, by |-> by, seen |-> seen, co |-> <<>>]

\* results of a call through apiRequest: a 2xx answer; an HTTP 401 answer, whose
\* JSON body apiRequest returns like any other; a rejection (fetch or
\* response.json() throws); a rejection whose message contains 'Unauthorized'
Results == {"ok", "http401", "netErr", "unauthErr"}
Faulty(res) == IF res = "ok" THEN 0 ELSE 1

\* a rejection that only an error naming 'Unauthorized' causes
RejectsOnlyUnauthorized(res) == res = "unauthErr"

\* the awaited call rejects: fetch or response.json() throws
Rejects(res) == res \in {"netErr", "unauthErr"}

\* ----------------------------------------------- CartProvider's effects
\* The effects work on a record of the CartProvider's part of the state;
\* pend is the queued setItems value, <<>> for none.
CartNow ==
    [items |-> items, pend |-> <<>>, cartLS |-> cartLS, cartMerged |-> cartMerged,
     checkoutComplete |-> checkoutComplete, clears |-> clears,
     initialLoadRef |-> initialLoadRef, syncingRef |-> syncingRef,
     lastSyncedItemsRef |-> lastSyncedItemsRef, debounceTimeout |-> debounceTimeout,
     loads |-> loads]

SetCart(c) ==
    /\ items' = c.items
    /\ cartLS' = c.cartLS
    /\ cartMerged' = c.cartMerged
    /\ checkoutComplete' = c.checkoutComplete
    /\ clears' = c.clears
    /\ initialLoadRef' = c.initialLoadRef
    /\ syncingRef' = c.syncingRef
    /\ lastSyncedItemsRef' = c.lastSyncedItemsRef
    /\ debounceTimeout' = c.debounceTimeout
    /\ loads' = c.loads

Load(pc, localCart, pushed, srv) ==
    [pc |-> pc, localCart |-> localCart, pushed |-> pushed, pushRes |-> "none",
     srv0 |-> srv, stale |-> FALSE]

\* loadCart without its checkoutComplete branch
loadCartIgnoresFlag(c, auth, srv) ==
    LET r == ReadStoredCart(c.cartLS)
        localCart == r.cart
        c1 == [c EXCEPT !.cartLS = r.rec]
    IN  IF auth
        THEN IF Len(localCart) > 0 /\ ~c1.cartMerged
             THEN [c1 EXCEPT !.loads = Append(@, Load("merge", localCart, TRUE, srv))]
             ELSE [c1 EXCEPT !.loads = Append(@, Load("fetch", localCart, FALSE, srv))]
        ELSE [c1 EXCEPT !.pend = <<localCart>>,
                        !.lastSyncedItemsRef = localCart,
                        !.initialLoadRef = FALSE]

\* loadCart up to its first await; auth is isAuthenticated && user of the
\* render that ran the effect
loadCart(c, auth, srv) ==
    IF c.checkoutComplete
    THEN [c EXCEPT !.pend = <<<<>>>>,
                   !.cartLS = NoRecord,
                   !.cartMerged = FALSE,
                   !.checkoutComplete = FALSE,
                   !.lastSyncedItemsRef = <<>>,
                   !.initialLoadRef = FALSE,
                   !.clears = IF auth THEN @ + 1 ELSE @]
    ELSE LET r == ReadStoredCart(c.cartLS)
             localCart == r.cart
             c1 == [c EXCEPT !.cartLS = r.rec]
         IN  IF auth
             THEN IF Len(localCart) > 0 /\ ~c1.cartMerged
                  THEN [c1 EXCEPT !.loads = Append(@, Load("merge", localCart, TRUE, srv))]
                  ELSE [c1 EXCEPT !.loads = Append(@, Load("fetch", localCart, FALSE, srv))]
             ELSE [c1 EXCEPT !.pend = <<localCart>>,
                             !.lastSyncedItemsRef = localCart,
                             !.initialLoadRef = FALSE]

RECURSIVE MarkStale(_)
\* history only: the loads in flight at a logout belong to the lifetime it ends
MarkStale(ls) ==
    IF ls = <<>> THEN <<>>
    ELSE <<[Head(ls) EXCEPT !.stale = TRUE]>> \o MarkStale(Tail(ls))

\* the logout effect
logoutEffect(c, auth) ==
    IF ~auth
    THEN [c EXCEPT !.pend = <<<<>>>>,
                   !.cartLS = NoRecord,
                   !.cartMerged = FALSE,
                   !.initialLoadRef = TRUE,
                   !.lastSyncedItemsRef = <<>>,
                   !.loads = MarkStale(@)]
    ELSE c

\* the save effect
saveEffect(c) == [c EXCEPT !.cartLS = Stringify(c.items)]

\* the sync effect without its syncingRef guard
syncEffectNoFlagGuard(c, auth) ==
    LET c0 == [c EXCEPT !.debounceTimeout = <<>>]
    IN  IF ~auth THEN c0
        ELSE IF c0.initialLoadRef THEN c0
        ELSE [c0 EXCEPT !.syncingRef = TRUE, !.debounceTimeout = <<c0.items>>]

\* the sync effect: the previous run's cleanup (clearTimeout), then the guards,
\* the flag and the timer
syncEffect(c, auth) ==
    LET c0 == [c EXCEPT !.debounceTimeout = <<>>]
    IN  IF ~auth THEN c0
        ELSE IF c0.initialLoadRef THEN c0
        ELSE IF c0.syncingRef THEN c0
        ELSE [c0 EXCEPT !.syncingRef = TRUE, !.debounceTimeout = <<c0.items>>]

\* the render that a queued setItems causes: items changed, so the save and
\* the sync effect run
Commit(c, auth) ==
    IF c.pend = <<>> THEN c
    ELSE syncEffect(saveEffect([c EXCEPT !.items = c.pend[1], !.pend = <<>>]), auth)

\* the render after setItems(new) alone
OnItemsChange(c, new, auth) == Commit([c EXCEPT !.pend = <<new>>], auth)

\* the render after AuthProvider rendered with the same user: only signOut,
\* a new function on every render of AuthProvider, changed
OnAuthRerender(c, auth) == syncEffect(c, auth)

\* the render after setUser: loadCart, the logout effect when isAuthenticated
\* changed, the sync effect, then the render for the queued setItems
OnUserChange(c, before, after, srv) ==
    LET c1 == loadCart(c, after, srv)
        c2 == IF before # after THEN logoutEffect(c1, after) ELSE c1
    IN  Commit(syncEffect(c2, after), after)

\* CartProvider mounts: its four effects in order, then the render for the
\* queued setItems
Mount(c, auth, srv) ==
    Commit(syncEffect(saveEffect(logoutEffect(loadCart(c, auth, srv), auth)), auth), auth)

RemoveAt(seq, i) == SubSeq(seq, 1, i - 1) \o SubSeq(seq, i + 1, Len(seq))

IsAuth == user # "none"

\* ------------------------------------------------------------------- Init
\* what a session that was signed in when the page was left has stored: the
\* cart as the save effect wrote it last, and the flag of a login that pushed
\* a guest cart
StoredBySession ==
    {[cart |-> <<>>, merged |-> FALSE],
     [cart |-> <<Item(ProductOrder[1], 1)>>, merged |-> FALSE],
     [cart |-> <<Item(ProductOrder[1], 1)>>, merged |-> TRUE]}

\* The page has loaded and AuthProvider's mount effect has run loadUser up to
\* its first await; what is stored decides how far that is.
PageLoaded ==
    /\ items = <<>>
    /\ syncingRef = FALSE
    /\ initialLoadRef = TRUE
    /\ lastSyncedItemsRef = <<>>
    /\ debounceTimeout = <<>>
    /\ cycles = <<>>
    /\ loads = <<>>
    /\ server \in {srv \in [Products -> {0, 1}] : srv[ProductOrder[Len(ProductOrder)]] = 1}
    /\ lastRefreshAttempt = 0
    /\ aborted = <<>>
    /\ orders = <<>>
    /\ clears = 0
    /\ refreshTimer = 0
    /\ intervals = {}
    /\ timerSeq = 0
    /\ now = Cooldown
    /\ faults = 0
    /\ mergesApplied = 0
    /\ mergeOkInLife = FALSE
    /\ lastCallAt = 0 - 1
    /\ lastFullAt = 0 - 1
    /\ ev = Event("Init", "ok")

TimersUnchanged == UNCHANGED <<isInitialized, refreshTimer, intervals, timerSeq>>

\* A first visit: nothing is stored, loadUser has ended at once, CartProvider
\* is mounted and its four effects have run (the logout effect leaves
\* initialLoadRef true, the save effect has written the empty cart).
Init ==
    /\ PageLoaded
    /\ cartLS = Stringify(<<>>)
    /\ cartMerged = FALSE
    /\ checkoutComplete = FALSE
    /\ user = "none"
    /\ authTokens = NoTokens
    /\ userLS = FALSE
    /\ refreshes = <<>>
    /\ isInitialized = TRUE
    /\ clicks = 0

\* A first visit, for the behaviours with checkouts
InitCheckout ==
    /\ PageLoaded
    /\ cartLS = Stringify(<<>>)
    /\ cartMerged = FALSE
    /\ checkoutComplete = FALSE
    /\ user = "none"
    /\ authTokens = NoTokens
    /\ userLS = FALSE
    /\ refreshes = <<>>
    /\ isInitialized = TRUE
    /\ clicks = MaxOps - CheckoutOps

\* A first visit, for the behaviours checked for what happens in the end
InitLive ==
    /\ PageLoaded
    /\ cartLS = Stringify(<<>>)
    /\ cartMerged = FALSE
    /\ checkoutComplete = FALSE
    /\ user = "none"
    /\ authTokens = NoTokens
    /\ userLS = FALSE
    /\ refreshes = <<>>
    /\ isInitialized = TRUE
    /\ clicks = MaxOps - LiveOps

\* A first visit, for the behaviours with page reloads
InitReload ==
    /\ PageLoaded
    /\ cartLS = Stringify(<<>>)
    /\ cartMerged = FALSE
    /\ checkoutComplete = FALSE
    /\ user = "none"
    /\ authTokens = NoTokens
    /\ userLS = FALSE
    /\ refreshes = <<>>
    /\ isInitialized = TRUE
    /\ clicks = MaxOps - ReloadOps

\* A return to a session: loadUser has set the stored user and awaits
\* getUserProfile; CartProvider is not mounted yet.
InitReturn ==
    /\ PageLoaded
    /\ \E st \in StoredBySession :
          /\ cartLS = Stringify(st.cart)
          /\ cartMerged = st.merged
    /\ checkoutComplete = FALSE
    /\ user = "user"
    /\ authTokens = [present |-> TRUE, access |-> TRUE, refresh |-> TRUE]
    /\ userLS = TRUE
    /\ refreshes = <<Refresh("loadUser", "loadUser", 0)>>
    /\ isInitialized = FALSE
    /\ clicks = MaxOps - ReturnOps

\* A text that JSON.parse rejects
Unparseable == [present |-> TRUE, ok |-> FALSE, arr |-> <<>>]

\* What localStorage 'cart' may hold when the page loads, whoever wrote it:
\* nothing, a cart, a text that is no JSON, a JSON array that is no cart (an
\* item of quantity 0)
StoredTexts ==
    {NoRecord, Unparseable,
     Stringify(<<>>),
     Stringify(<<Item(ProductOrder[1], 1)>>),
     Stringify(<<Item(ProductOrder[1], 0)>>),
     Stringify(<<Item(ProductOrder[1], 1), Item(ProductOrder[2], 0)>>)}

\* A return to a session with any stored cart record and either value of the
\* checkoutComplete flag
InitStored ==
    /\ PageLoaded
    /\ cartLS \in StoredTexts
    /\ cartMerged \in BOOLEAN
    /\ checkoutComplete \in BOOLEAN
    /\ user = "user"
    /\ authTokens = [present |-> TRUE, access |-> TRUE, refresh |-> TRUE]
    /\ userLS = TRUE
    /\ refreshes = <<Refresh("loadUser", "loadUser", 0)>>
    /\ isInitialized = FALSE
    /\ clicks = MaxOps - StoredOps

\* the carts a guest may have left in localStorage 'cart'
GuestCarts ==
    {<<>>,
     <<Item(ProductOrder[1], 1)>>,
     <<Item(ProductOrder[2], 1)>>,
     <<Item(ProductOrder[1], 1), Item(ProductOrder[2], 1)>>}

\* A guest's page load: nothing of a session is stored, the cart record is
\* what the save effect wrote last; AuthProvider's mount effect has not run
InitGuest ==
    /\ PageLoaded
    /\ \E cart \in GuestCarts : cartLS = Stringify(cart)
    /\ cartMerged = FALSE
    /\ checkoutComplete = FALSE
    /\ user = "none"
    /\ authTokens = NoTokens
    /\ userLS = FALSE
    /\ refreshes = <<>>
    /\ isInitialized = FALSE
    /\ clicks = MaxOps - GuestOps

AuthUnchanged ==
    /\ UNCHANGED <<user, authTokens, userLS, lastRefreshAttempt, refreshes, orders, lastCallAt, lastFullAt>>
    /\ TimersUnchanged
HistoryUnchanged == UNCHANGED <<mergesApplied, mergeOkInLife, aborted>>

\* the history of the login lifetime: it ends when the user is dropped
MergeHistory(applied, okNow) ==
    /\ mergesApplied' = IF user' = "none" THEN 0 ELSE mergesApplied + applied
    /\ mergeOkInLife' = IF user' = "none" THEN FALSE ELSE mergeOkInLife \/ okNow

History(applied, okNow) ==
    /\ MergeHistory(applied, okNow)
    /\ UNCHANGED aborted

\* history: the cycle a rejection aborted: the rejection, the calls that had
\* returned before the rejected one, the cart and the baseline the cycle
\* worked with; again is <<>> until the next cycle has started, then <<the
\* calls of that cycle>>
Aborted(res, done, cur, base) ==
    [res |-> res, done |-> done, cur |-> cur, base |-> base, again |-> <<>>]

\* ------------------------------------------------------ cart operations
Mutate(new, name) ==
    /\ isInitialized
    /\ clicks < MaxOps
    /\ clicks' = clicks + 1
    /\ SetCart(OnItemsChange(CartNow, new, IsAuth))
    /\ ev' = Event(name, "ok")
    /\ UNCHANGED <<cycles, server, now, faults>>
    /\ AuthUnchanged /\ HistoryUnchanged

addItem(id, quantity) == Mutate(addItemUpdater(items, id, quantity), "addItem")

removeItem(id) == Mutate(removeItemUpdater(items, id), "removeItem")

updateQuantity(id, quantity) ==
    Mutate(updateQuantityUpdater(items, id, quantity), "updateQuantity")

\* clearCart without its removal of the merge flag
clearCartKeepsMergeFlag ==
    /\ isInitialized
    /\ clicks < MaxOps
    /\ clicks' = clicks + 1
    /\ SetCart(OnItemsChange([CartNow EXCEPT !.cartLS = NoRecord,
                                             !.checkoutComplete = FALSE],
                             <<>>, IsAuth))
    /\ ev' = Event("clearCart", "ok")
    /\ UNCHANGED <<cycles, server, now, faults>>
    /\ AuthUnchanged /\ HistoryUnchanged

\* setItems([]), then the three removeItem calls, then the render
clearCart ==
    /\ isInitialized
    /\ clicks < MaxOps
    /\ clicks' = clicks + 1
    /\ SetCart(OnItemsChange([CartNow EXCEPT !.cartLS = NoRecord, !.cartMerged = FALSE,
                                             !.checkoutComplete = FALSE],
                             <<>>, IsAuth))
    /\ ev' = Event("clearCart", "ok")
    /\ UNCHANGED <<cycles, server, now, faults>>
    /\ AuthUnchanged /\ HistoryUnchanged

\* ------------------------------------------------------------ the session
\* processCheckout after refreshToken returned ret; co is <<>> for a call
\* that is not processCheckout's, else <<the items of the render that
\* processCheckout belongs to>>
CheckoutToast(co, ret) ==
    IF co = <<>> THEN "none"
    ELSE IF ~ret THEN "checkoutSessionExpired"
    ELSE IF co[1] = <<>> THEN "cartEmpty"
    ELSE "none"

\* the createOrder calls in flight after that
CheckoutOrders(os, co, ret) ==
    IF co # <<>> /\ ret /\ co[1] # <<>> THEN Append(os, [items |-> co[1]]) ELSE os

\* clearInterval(id); clearing null or an id that is not live does nothing
ClearInterval(ivs, id) == {t \in ivs : t.id # id}

\* scheduleTokenRefresh of a render whose refreshTimer is seen: the interval
\* it creates calls the attemptTokenRefresh of that same render
scheduleTokenRefresh(ivs, seen, newId) ==
    ClearInterval(ivs, seen) \cup {[id |-> newId, seen |-> seen]}

\* clearAuthState followed by the render its setUser(null) causes; a
\* setUser(null) that does not change the state causes no render
ClearAuthThenRender(c) ==
    IF IsAuth THEN OnUserChange(c, TRUE, FALSE, server) ELSE c

\* signIn: the call, the stores and setUser on success; apiRequest returns the
\* body of a 401 answer, so the tokens record is written from it before
\* response.user.id throws
signIn(res) ==
    /\ isInitialized
    /\ ~IsAuth
    /\ clicks < MaxOps
    /\ res \in {"ok", "http401", "netErr"}
    /\ faults + Faulty(res) <= MaxFaults
    /\ Len(loads) < MaxLoads
    /\ clicks' = clicks + 1
    /\ faults' = faults + Faulty(res)
    /\ IF res = "ok"
       THEN /\ authTokens' = [present |-> TRUE, access |-> TRUE, refresh |-> TRUE]
            /\ user' = "user"
            /\ userLS' = TRUE
            /\ intervals' = scheduleTokenRefresh(intervals, refreshTimer, timerSeq + 1)
            /\ refreshTimer' = timerSeq + 1
            /\ timerSeq' = timerSeq + 1
            /\ SetCart(OnUserChange(CartNow, FALSE, TRUE, server))
       ELSE /\ authTokens' = IF res = "http401"
                             THEN [present |-> TRUE, access |-> FALSE, refresh |-> FALSE]
                             ELSE authTokens
            /\ UNCHANGED <<user, userLS, intervals, refreshTimer, timerSeq>>
            /\ SetCart(OnAuthRerender(CartNow, FALSE))
    /\ UNCHANGED isInitialized
    /\ History(0, FALSE)
    /\ ev' = Event("signIn", res)
    /\ UNCHANGED <<cycles, server, now, lastRefreshAttempt, refreshes, orders, lastCallAt, lastFullAt>>

\* signOut: clearAuthState and the toast
signOut ==
    /\ isInitialized
    /\ IsAuth
    /\ clicks < MaxOps
    /\ clicks' = clicks + 1
    /\ authTokens' = NoTokens
    /\ userLS' = FALSE
    /\ user' = "none"
    /\ SetCart(ClearAuthThenRender(CartNow))
    /\ History(0, FALSE)
    /\ intervals' = ClearInterval(intervals, refreshTimer)
    /\ ev' = Event("signOut", "ok")
    /\ UNCHANGED <<cycles, server, now, faults, lastRefreshAttempt, refreshes, orders, lastCallAt,
                   lastFullAt, refreshTimer, timerSeq, isInitialized>>

\* ------------------------------------------------------- the sync cycle
\* a catch block that advances the baseline to the cart of the cycle
BaselineAfterAbortAdvances(base, cur) == cur

\* the baseline after the catch block of a cycle: the block assigns nothing
BaselineAfterAbort(base, cur) == base

\* seen is the refreshTimer of the render whose signOut the cycle holds; srv0
\* is history, the backend's cart when the cycle started
Cycle(calls, cur, base) ==
    [calls |-> calls, next |-> 1, cur |-> cur, base |-> base, allOk |-> TRUE,
     seen |-> refreshTimer, srv0 |-> server]

\* history: what a cycle that ran to its end did
Finished(calls, cur, base, allOk, srv0) ==
    [calls |-> calls, cur |-> cur, base |-> base, allOk |-> allOk, srv0 |-> srv0]

\* the debounce timer fires: syncCartToBackend up to its first await.  With
\* nothing to send it runs to its end at once.
TimerFires ==
    /\ debounceTimeout # <<>>
    /\ LET currentItems == debounceTimeout[1]
           calls == SyncCalls(lastSyncedItemsRef, currentItems)
       IN  IF calls = <<>>
           THEN /\ lastSyncedItemsRef' = currentItems
                /\ syncingRef' = FALSE
                /\ cycles' = cycles
                /\ ev' = [Event("TimerFires", "ok") EXCEPT
                              !.cyc = <<Finished(calls, currentItems, lastSyncedItemsRef, TRUE, server)>>]
           ELSE /\ cycles' = Append(cycles, Cycle(calls, currentItems, lastSyncedItemsRef))
                /\ ev' = Event("TimerFires", "started")
                /\ UNCHANGED <<lastSyncedItemsRef, syncingRef>>
    /\ debounceTimeout' = <<>>
    /\ UNCHANGED <<items, initialLoadRef, loads, cartLS, cartMerged, checkoutComplete, clears, server, now, clicks, faults>>
    /\ aborted' = IF aborted # <<>> /\ aborted[1].again = <<>>
                  THEN <<[aborted[1] EXCEPT
                             !.again = <<SyncCalls(lastSyncedItemsRef, debounceTimeout[1])>>]>>
                  ELSE aborted
    /\ AuthUnchanged /\ UNCHANGED <<mergesApplied, mergeOkInLife>>

\* a call of a cycle returns or rejects: the next call, the end of the try
\* block, or the catch block; then finally
SyncCallDone(i, res) ==
    /\ i \in 1..Len(cycles)
    /\ res \in Results
    /\ faults + Faulty(res) <= MaxFaults
    /\ faults' = faults + Faulty(res)
    /\ LET cy == cycles[i]
           call == cy.calls[cy.next]
           okAll == cy.allOk /\ res = "ok"
       IN  /\ server' = IF res = "ok" THEN ApplyCall(server, call) ELSE server
           /\ IF ~Rejects(res)
              THEN IF cy.next < Len(cy.calls)
                   THEN /\ cycles' = [cycles EXCEPT ![i].next = @ + 1, ![i].allOk = okAll]
                        /\ ev' = Event("SyncCallDone", res)
                        /\ UNCHANGED <<items, syncingRef, initialLoadRef, lastSyncedItemsRef,
                                       debounceTimeout, loads, cartLS, cartMerged, checkoutComplete, clears>>
                   ELSE /\ cycles' = RemoveAt(cycles, i)
                        /\ lastSyncedItemsRef' = cy.cur
                        /\ syncingRef' = FALSE
                        /\ ev' = [Event("SyncCallDone", res) EXCEPT
                                      !.cyc = <<Finished(SubSeq(cy.calls, 1, cy.next), cy.cur,
                                                         cy.base, okAll, cy.srv0)>>]
                        /\ UNCHANGED <<items, initialLoadRef, debounceTimeout, loads,
                                       cartLS, cartMerged, checkoutComplete, clears>>
              ELSE /\ cycles' = RemoveAt(cycles, i)
                   /\ IF res = "unauthErr"
                      THEN /\ SetCart(ClearAuthThenRender([CartNow EXCEPT !.syncingRef = FALSE]))
                           /\ ev' = [Event("SyncCallDone", res) EXCEPT !.toast = "sessionExpired"]
                      ELSE /\ syncingRef' = FALSE
                           /\ lastSyncedItemsRef' =
                                  BaselineAfterAbort(lastSyncedItemsRef, cy.cur)
                           /\ ev' = Event("SyncCallDone", res)
                           /\ UNCHANGED <<items, initialLoadRef,
                                          debounceTimeout, loads, cartLS, cartMerged, checkoutComplete, clears>>
           /\ IF res = "unauthErr"
              THEN /\ user' = "none"
                   /\ authTokens' = NoTokens
                   /\ userLS' = FALSE
                   /\ intervals' = ClearInterval(intervals, cy.seen)
              ELSE UNCHANGED <<user, authTokens, userLS, intervals>>
    /\ MergeHistory(0, FALSE)
    /\ aborted' = IF Rejects(res)
                  THEN LET cy == cycles[i]
                       IN  <<Aborted(res, SubSeq(cy.calls, 1, cy.next - 1), cy.cur, cy.base)>>
                  ELSE aborted
    /\ UNCHANGED <<now, clicks, lastRefreshAttempt, refreshes, orders, lastCallAt, lastFullAt,
                   refreshTimer, timerSeq, isInitialized>>

\* ------------------------------------------------------------ loadCart
\* the catch block without its assignment to lastSyncedItemsRef
LoadFallbackKeepsBaseline(c, i) ==
    OnItemsChange([c EXCEPT !.loads = RemoveAt(@, i), !.initialLoadRef = FALSE],
                  c.loads[i].localCart, IsAuth)

\* the catch block of loadCart and the render it causes
LoadFallback(c, i) ==
    OnItemsChange([c EXCEPT !.loads = RemoveAt(@, i),
                            !.lastSyncedItemsRef = c.loads[i].localCart,
                            !.initialLoadRef = FALSE],
                  c.loads[i].localCart, IsAuth)

\* the success branch without its assignment to lastSyncedItemsRef
AdoptBackendCartKeepsBaseline(c, i, mappedBackendCart) ==
    OnItemsChange([c EXCEPT !.loads = RemoveAt(@, i),
                            !.cartLS = NoRecord,
                            !.initialLoadRef = FALSE],
                  mappedBackendCart, IsAuth)

\* the success branch of loadCart after getUserCart and the render it causes
AdoptBackendCart(c, i, mappedBackendCart) ==
    OnItemsChange([c EXCEPT !.loads = RemoveAt(@, i),
                            !.lastSyncedItemsRef = mappedBackendCart,
                            !.cartLS = NoRecord,
                            !.initialLoadRef = FALSE],
                  mappedBackendCart, IsAuth)

\* mergeCart returns or rejects
MergeDone(i, res) ==
    /\ i \in 1..Len(loads)
    /\ loads[i].pc = "merge"
    /\ res \in {"ok", "http401", "netErr"}
    /\ faults + Faulty(res) <= MaxFaults
    /\ faults' = faults + Faulty(res)
    /\ server' = IF res = "ok" THEN MergeInto(server, loads[i].localCart) ELSE server
    /\ IF res = "netErr"
       THEN SetCart(LoadFallback(CartNow, i))
       ELSE SetCart([CartNow EXCEPT !.cartMerged = TRUE,
                                    !.loads[i].pc = "fetch",
                                    !.loads[i].pushRes = res])
    /\ ev' = [Event("MergeDone", res) EXCEPT !.load = <<loads[i]>>]
    /\ UNCHANGED <<cycles, user, now, clicks>>
    /\ History(IF res = "ok" /\ ~loads[i].stale THEN 1 ELSE 0, res = "ok" /\ ~loads[i].stale)
    /\ UNCHANGED <<authTokens, userLS, lastRefreshAttempt, refreshes, orders, lastCallAt, lastFullAt>>
    /\ TimersUnchanged

\* getUserCart returns or rejects; the body of a 401 answer is no array, so
\* backendCart.map throws
FetchDone(i, res) ==
    /\ i \in 1..Len(loads)
    /\ loads[i].pc = "fetch"
    /\ res \in {"ok", "http401", "netErr"}
    /\ faults + Faulty(res) <= MaxFaults
    /\ faults' = faults + Faulty(res)
    /\ IF res = "ok"
       THEN SetCart(AdoptBackendCart(CartNow, i, FetchCart(server)))
       ELSE SetCart(LoadFallback(CartNow, i))
    /\ ev' = [Event("FetchDone", res) EXCEPT !.load = <<loads[i]>>]
    /\ UNCHANGED <<cycles, server, now, clicks>>
    /\ AuthUnchanged /\ HistoryUnchanged

\* --------------------------------------------------------- refreshToken
\* the comparison with its operands swapped
RateLimitedSwapped(t, last) == last - t > Cooldown

\* if (now - lastRefreshAttempt < 2000)
RateLimited(t, last) == t - last < Cooldown

\* a call of refreshToken up to its first await, and what its caller does
\* when it returns at once; name is the caller's entry point
RefreshCall(name, co) ==
    /\ isInitialized
    /\ clicks < MaxOps
    /\ clicks' = clicks + 1
    /\ lastCallAt' = now
    /\ IF RateLimited(now, lastRefreshAttempt)
       THEN /\ ev' = [Event(name, IF IsAuth THEN "limitedTrue" ELSE "limitedFalse")
                         EXCEPT !.toast = CheckoutToast(co, IsAuth)]
            /\ orders' = CheckoutOrders(orders, co, IsAuth)
            /\ UNCHANGED <<items, syncingRef, initialLoadRef, lastSyncedItemsRef,
                           debounceTimeout, loads, cartLS, cartMerged, checkoutComplete, clears,
                           lastRefreshAttempt, refreshes, lastFullAt>>
       ELSE /\ Len(refreshes) < MaxRefreshes
            /\ lastFullAt' = now
            /\ lastRefreshAttempt' = now
            /\ SetCart(OnAuthRerender(CartNow, IsAuth))
            /\ IF authTokens.access
               THEN /\ refreshes' = Append(refreshes,
                                           [Refresh("profile", "refreshToken", refreshTimer)
                                               EXCEPT !.co = co])
                    /\ ev' = Event(name, "started")
                    /\ orders' = orders
               ELSE IF authTokens.refresh
               THEN /\ refreshes' = Append(refreshes,
                                           [Refresh("exchange", "refreshToken", refreshTimer)
                                               EXCEPT !.co = co])
                    /\ ev' = Event(name, "started")
                    /\ orders' = orders
               ELSE /\ refreshes' = refreshes
                    /\ ev' = [Event(name, "retFalse") EXCEPT !.toast = CheckoutToast(co, FALSE)]
                    /\ orders' = orders
    /\ UNCHANGED <<cycles, server, user, authTokens, userLS, now, faults>>
    /\ HistoryUnchanged /\ TimersUnchanged

\* refreshToken called by a consumer that does nothing with the result
refreshToken == RefreshCall("refreshToken", <<>>)

\* processCheckout: setIsProcessing, then await refreshToken(); the items are
\* those of the render the handler belongs to
processCheckout ==
    /\ Len(orders) < MaxOrders
    /\ \A i \in 1..Len(refreshes) : refreshes[i].co = <<>>
    /\ RefreshCall("processCheckout", <<items>>)

\* getUserProfile of refreshToken returns or rejects; on a rejection
\* attemptTokenRefresh starts
ProfileDone(i, res) ==
    /\ i \in 1..Len(refreshes)
    /\ refreshes[i].pc = "profile"
    /\ res \in {"ok", "http401", "netErr"}
    /\ faults + Faulty(res) <= MaxFaults
    /\ faults' = faults + Faulty(res)
    /\ IF res = "netErr"
       THEN /\ IF authTokens.refresh
               THEN /\ refreshes' = [refreshes EXCEPT ![i].pc = "exchange"]
                    /\ ev' = Event("ProfileDone", "exchange")
               ELSE /\ refreshes' = RemoveAt(refreshes, i)
                    /\ ev' = [Event("ProfileDone", "retFalse")
                                 EXCEPT !.toast = CheckoutToast(refreshes[i].co, FALSE)]
            /\ UNCHANGED <<items, syncingRef, initialLoadRef, lastSyncedItemsRef,
                           debounceTimeout, loads, cartLS, cartMerged, checkoutComplete, clears, user, userLS, orders>>
       ELSE /\ Len(loads) < MaxLoads
            /\ user' = IF res = "ok" THEN "user" ELSE "errBody"
            /\ userLS' = TRUE
            /\ SetCart(OnUserChange(CartNow, IsAuth, TRUE, server))
            /\ refreshes' = RemoveAt(refreshes, i)
            /\ orders' = CheckoutOrders(orders, refreshes[i].co, TRUE)
            /\ ev' = [Event("ProfileDone", "retTrue")
                         EXCEPT !.toast = CheckoutToast(refreshes[i].co, TRUE)]
    /\ History(0, FALSE)
    /\ UNCHANGED <<cycles, server, authTokens, lastRefreshAttempt, now, clicks, lastCallAt, lastFullAt>>
    /\ TimersUnchanged

\* authService.refreshToken of attemptTokenRefresh returns or rejects (it
\* throws on every answer that is not ok)
ExchangeDone(i, res) ==
    /\ i \in 1..Len(refreshes)
    /\ refreshes[i].pc = "exchange"
    /\ res \in {"ok", "http401", "netErr"}
    /\ faults + Faulty(res) <= MaxFaults
    /\ faults' = faults + Faulty(res)
    /\ IF res = "ok"
       THEN /\ authTokens' = [present |-> TRUE, access |-> TRUE, refresh |-> TRUE]
            /\ refreshes' = [refreshes EXCEPT ![i].pc = "profile2"]
            /\ ev' = [Event("ExchangeDone", "ok") EXCEPT !.by = refreshes[i].by]
            /\ UNCHANGED <<items, syncingRef, initialLoadRef, lastSyncedItemsRef,
                           debounceTimeout, loads, cartLS, cartMerged, checkoutComplete, clears, user, userLS, intervals>>
       ELSE /\ authTokens' = NoTokens
            /\ userLS' = FALSE
            /\ user' = "none"
            /\ SetCart(IF refreshes[i].by = "loadUser"
                       THEN Mount(CartNow, FALSE, server)
                       ELSE ClearAuthThenRender(CartNow))
            /\ refreshes' = RemoveAt(refreshes, i)
            /\ intervals' = ClearInterval(intervals, refreshes[i].seen)
            /\ ev' = [Event("ExchangeDone", "retFalse")
                         EXCEPT !.by = refreshes[i].by,
                                !.toast = CheckoutToast(refreshes[i].co, FALSE)]
    /\ orders' = orders
    /\ isInitialized' = (isInitialized \/ (res # "ok" /\ refreshes[i].by = "loadUser"))
    /\ History(0, FALSE)
    /\ UNCHANGED <<cycles, server, lastRefreshAttempt, now, clicks, lastCallAt, lastFullAt,
                   refreshTimer, timerSeq>>

\* getUserProfile of attemptTokenRefresh returns or rejects
Profile2Done(i, res) ==
    /\ i \in 1..Len(refreshes)
    /\ refreshes[i].pc = "profile2"
    /\ res \in {"ok", "http401", "netErr"}
    /\ faults + Faulty(res) <= MaxFaults
    /\ faults' = faults + Faulty(res)
    /\ IF res = "netErr"
       THEN /\ UNCHANGED <<user, userLS>>
            /\ IF refreshes[i].by = "loadUser"
               THEN SetCart(Mount(CartNow, IsAuth, server))
               ELSE UNCHANGED <<items, syncingRef, initialLoadRef, lastSyncedItemsRef,
                                debounceTimeout, loads, cartLS, cartMerged, checkoutComplete, clears>>
       ELSE /\ Len(loads) < MaxLoads
            /\ user' = IF res = "ok" THEN "user" ELSE "errBody"
            /\ userLS' = TRUE
            /\ SetCart(IF refreshes[i].by = "loadUser"
                       THEN Mount(CartNow, TRUE, server)
                       ELSE OnUserChange(CartNow, IsAuth, TRUE, server))
    /\ refreshes' = RemoveAt(refreshes, i)
    /\ isInitialized' = (isInitialized \/ refreshes[i].by = "loadUser")
    /\ orders' = CheckoutOrders(orders, refreshes[i].co, TRUE)
    /\ ev' = [Event("Profile2Done", "retTrue")
                 EXCEPT !.by = refreshes[i].by,
                        !.toast = CheckoutToast(refreshes[i].co, TRUE)]
    /\ History(0, FALSE)
    /\ UNCHANGED <<cycles, server, authTokens, lastRefreshAttempt, now, clicks, lastCallAt, lastFullAt,
                   refreshTimer, intervals, timerSeq>>

\* getUserProfile of loadUser returns or rejects; when loadUser ends, its
\* finally block lets AuthProvider render its children and CartProvider mounts
loadUserProfileDone(i, res) ==
    /\ i \in 1..Len(refreshes)
    /\ refreshes[i].pc = "loadUser"
    /\ res \in {"ok", "http401", "netErr"}
    /\ faults + Faulty(res) <= MaxFaults
    /\ faults' = faults + Faulty(res)
    /\ IF res = "netErr"
       THEN IF authTokens.refresh
            THEN /\ refreshes' = [refreshes EXCEPT ![i].pc = "exchange"]
                 /\ ev' = [Event("loadUserProfileDone", "exchange") EXCEPT !.by = "loadUser"]
                 /\ UNCHANGED <<items, syncingRef, initialLoadRef, lastSyncedItemsRef,
                                debounceTimeout, loads, cartLS, cartMerged, checkoutComplete, clears, user, userLS,
                                authTokens, isInitialized, refreshTimer, intervals, timerSeq>>
            ELSE /\ refreshes' = RemoveAt(refreshes, i)
                 /\ authTokens' = NoTokens
                 /\ userLS' = FALSE
                 /\ user' = "none"
                 /\ intervals' = ClearInterval(intervals, refreshes[i].seen)
                 /\ isInitialized' = TRUE
                 /\ SetCart(Mount(CartNow, FALSE, server))
                 /\ ev' = [Event("loadUserProfileDone", "cleared") EXCEPT !.by = "loadUser"]
                 /\ UNCHANGED <<refreshTimer, timerSeq>>
       ELSE /\ refreshes' = RemoveAt(refreshes, i)
            /\ user' = IF res = "ok" THEN "user" ELSE "errBody"
            /\ userLS' = TRUE
            /\ intervals' = scheduleTokenRefresh(intervals, refreshes[i].seen, timerSeq + 1)
            /\ refreshTimer' = timerSeq + 1
            /\ timerSeq' = timerSeq + 1
            /\ isInitialized' = TRUE
            /\ SetCart(Mount(CartNow, TRUE, server))
            /\ ev' = [Event("loadUserProfileDone", "scheduled") EXCEPT !.by = "loadUser"]
            /\ UNCHANGED authTokens
    /\ History(0, FALSE)
    /\ UNCHANGED <<cycles, server, lastRefreshAttempt, now, clicks, lastCallAt, lastFullAt, orders>>

\* loadUser finds no stored tokens and runs to its end at once; CartProvider
\* mounts unauthenticated
loadUserNoSession ==
    /\ ~isInitialized
    /\ ~authTokens.present
    /\ isInitialized' = TRUE
    /\ SetCart(Mount(CartNow, FALSE, server))
    /\ ev' = [Event("loadUser", "noSession") EXCEPT !.by = "loadUser"]
    /\ UNCHANGED <<cycles, server, now, clicks, faults, user, authTokens, userLS,
                   lastRefreshAttempt, refreshes, orders, lastCallAt, lastFullAt,
                   refreshTimer, intervals, timerSeq>>
    /\ HistoryUnchanged

\* The signed-in user reloads the page while no call is in flight and no
\* timer is pending: localStorage and the backend stay, everything in memory
\* starts anew, and loadUser sets the stored user and awaits getUserProfile.
\* CartProvider is not mounted until loadUser has run to its end.
Reload ==
    /\ isInitialized
    /\ clicks < MaxOps
    /\ IsAuth /\ userLS /\ authTokens.present /\ authTokens.access
    /\ cycles = <<>> /\ loads = <<>> /\ refreshes = <<>> /\ orders = <<>> /\ clears = 0
    /\ debounceTimeout = <<>>
    /\ clicks' = clicks + 1
    /\ items' = <<>>
    /\ syncingRef' = FALSE
    /\ initialLoadRef' = TRUE
    /\ lastSyncedItemsRef' = <<>>
    /\ lastRefreshAttempt' = 0
    /\ refreshTimer' = 0
    /\ intervals' = {}
    /\ isInitialized' = FALSE
    /\ refreshes' = <<Refresh("loadUser", "loadUser", 0)>>
    /\ aborted' = <<>>
    /\ mergesApplied' = 0
    /\ mergeOkInLife' = FALSE
    /\ lastCallAt' = 0 - 1
    /\ lastFullAt' = 0 - 1
    /\ ev' = Event("Reload", "ok")
    /\ UNCHANGED <<debounceTimeout, cycles, loads, orders, clears, cartLS, cartMerged,
                   checkoutComplete, server, user, authTokens, userLS, timerSeq, now, faults>>

\* the backend's cart after orders/cart/clear/
ClearServer == [p \in Products |-> 0]

\* the clearCart call of a load that found checkoutComplete returns or
\* rejects; nothing awaits it and a rejection is only logged
ClearCartDone(res) ==
    /\ clears > 0
    /\ faults + Faulty(res) <= MaxFaults
    /\ faults' = faults + Faulty(res)
    /\ clears' = clears - 1
    /\ server' = IF res = "ok" THEN ClearServer ELSE server
    /\ ev' = Event("ClearCartDone", res)
    /\ UNCHANGED <<items, syncingRef, initialLoadRef, lastSyncedItemsRef, debounceTimeout,
                   cycles, loads, cartLS, cartMerged, checkoutComplete, now, clicks>>
    /\ AuthUnchanged /\ HistoryUnchanged

\* createOrder returns or rejects: the toast and clearCart(), or the catch
\* block
CreateOrderDone(i, res) ==
    /\ i \in 1..Len(orders)
    /\ res \in Results
    /\ faults + Faulty(res) <= MaxFaults
    /\ faults' = faults + Faulty(res)
    /\ orders' = RemoveAt(orders, i)
    /\ IF ~Rejects(res)
       THEN /\ SetCart(OnItemsChange([CartNow EXCEPT !.cartLS = NoRecord, !.cartMerged = FALSE,
                                             !.checkoutComplete = FALSE],
                                     <<>>, IsAuth))
            /\ ev' = [Event("CreateOrderDone", res) EXCEPT !.toast = "orderPlaced"]
       ELSE /\ UNCHANGED <<items, syncingRef, initialLoadRef, lastSyncedItemsRef,
                           debounceTimeout, loads, cartLS, cartMerged, checkoutComplete, clears>>
            /\ ev' = [Event("CreateOrderDone", res) EXCEPT
                         !.toast = IF res = "unauthErr" THEN "checkoutSessionExpired"
                                   ELSE "checkoutFailed"]
    /\ UNCHANGED <<cycles, server, now, clicks, user, authTokens, userLS, lastRefreshAttempt,
                   refreshes, lastCallAt, lastFullAt>>
    /\ TimersUnchanged /\ HistoryUnchanged

\* the renewal interval fires: attemptTokenRefresh, of the render that
\* scheduled the interval, up to its first await
RenewalFires(id) ==
    /\ \E t \in intervals : t.id = id
    /\ clicks < MaxOps
    /\ clicks' = clicks + 1
    /\ IF authTokens.refresh
       THEN /\ Len(refreshes) < MaxRefreshes
            /\ refreshes' = Append(refreshes, Refresh("exchange", "renewal",
                                             (CHOOSE t \in intervals : t.id = id).seen))
            /\ ev' = [Event("RenewalFires", "started") EXCEPT !.by = "renewal"]
       ELSE /\ refreshes' = refreshes
            /\ ev' = [Event("RenewalFires", "retFalse") EXCEPT !.by = "renewal"]
    /\ UNCHANGED <<items, syncingRef, initialLoadRef, lastSyncedItemsRef, debounceTimeout,
                   cycles, loads, cartLS, cartMerged, checkoutComplete, clears, server, now, faults,
                   user, authTokens, userLS, lastRefreshAttempt, lastCallAt, lastFullAt,
                   refreshTimer, intervals, timerSeq, isInitialized, orders>>
    /\ HistoryUnchanged

\* time passes; only refreshToken reads the clock, so the time before its
\* first call is not counted
Tick ==
    /\ lastCallAt >= 0
    /\ now < Cooldown + MaxTicks * TickMs
    /\ now' = now + TickMs
    /\ ev' = Event("Tick", "ok")
    /\ UNCHANGED <<items, syncingRef, initialLoadRef, lastSyncedItemsRef, debounceTimeout,
                   cycles, loads, cartLS, cartMerged, checkoutComplete, clears, server, clicks, faults>>
    /\ AuthUnchanged /\ HistoryUnchanged

\* ------------------------------------------------------------------- Next
Next ==
    \/ \E id \in Products, q \in 1..MaxQty : addItem(id, q)
    \/ \E id \in Products : removeItem(id)
    \/ \E id \in Products, q \in 0..MaxQty : updateQuantity(id, q)
    \/ clearCart
    \/ \E res \in Results : signIn(res)
    \/ signOut
    \/ refreshToken
    \/ TimerFires
    \/ \E i \in 1..MaxLoads, res \in Results : SyncCallDone(i, res)
    \/ \E i \in 1..MaxLoads, res \in Results : MergeDone(i, res)
    \/ \E i \in 1..MaxLoads, res \in Results : FetchDone(i, res)
    \/ \E i \in 1..MaxRefreshes, res \in Results : ProfileDone(i, res)
    \/ \E i \in 1..MaxRefreshes, res \in Results : ExchangeDone(i, res)
    \/ \E i \in 1..MaxRefreshes, res \in Results : Profile2Done(i, res)
    \/ \E id \in 1..MaxOps : RenewalFires(id)
    \/ Tick

Spec == Init /\ [][Next]_vars

NextReturn ==
    \/ Next
    \/ \E i \in 1..MaxRefreshes, res \in Results : loadUserProfileDone(i, res)

SpecReturn == InitReturn /\ [][NextReturn]_vars

NextStored ==
    \/ NextReturn
    \/ \E res \in Results : ClearCartDone(res)

SpecStored == InitStored /\ [][NextStored]_vars

NextGuest ==
    \/ Next
    \/ loadUserNoSession

SpecGuest == InitGuest /\ [][NextGuest]_vars

\* the browser runs a timer that is due and delivers the answer of every call
Scheduling ==
    /\ WF_vars(TimerFires)
    /\ WF_vars(\E i \in 1..MaxLoads, res \in Results : SyncCallDone(i, res))
    /\ WF_vars(\E i \in 1..MaxLoads, res \in Results : MergeDone(i, res))
    /\ WF_vars(\E i \in 1..MaxLoads, res \in Results : FetchDone(i, res))
    /\ WF_vars(\E i \in 1..MaxRefreshes, res \in Results : ProfileDone(i, res))
    /\ WF_vars(\E i \in 1..MaxRefreshes, res \in Results : ExchangeDone(i, res))
    /\ WF_vars(\E i \in 1..MaxRefreshes, res \in Results : Profile2Done(i, res))

SpecLive == InitLive /\ [][Next]_vars /\ Scheduling

NextReload ==
    \/ NextReturn
    \/ Reload

SpecReload == InitReload /\ [][NextReload]_vars

NextCheckout ==
    \/ Next
    \/ processCheckout
    \/ \E i \in 1..MaxOrders, res \in Results : CreateOrderDone(i, res)

SpecCheckout == InitCheckout /\ [][NextCheckout]_vars

\* ================================================================ claims
MutationEvents == {"addItem", "removeItem", "updateQuantity", "clearCart"}

\* ---------------------------------------------------------------- C1
\* C1 (as the spec states it): of two cart mutations made while authenticated
\* and after the initial load, the second arriving while the debounce timer of
\* the first is still pending, the second re-arms the timer, so that one sync
\* cycle runs and diffs the final cart against the baseline: after the second
\* mutation a timer is pending that captured the final cart.
C1_SecondMutationRearmsTimer ==
    [][(/\ ev.name \in MutationEvents
        /\ debounceTimeout # <<>>
        /\ IsAuth /\ ~initialLoadRef
        /\ ev'.name \in MutationEvents)
       => debounceTimeout' = <<items'>>]_vars

\* ---------------------------------------------------------------- C2
\* what the diff of the spec asks for one product id
ExpectedCalls(base, cur, id) ==
    IF QtyOf(base, id) = QtyOf(cur, id) THEN <<>>
    ELSE IF QtyOf(cur, id) = 0 THEN <<Call("remove", id, 0)>>
    ELSE IF QtyOf(base, id) = 0 THEN <<Call("add", id, QtyOf(cur, id))>>
    ELSE <<Call("update", id, QtyOf(cur, id))>>

RECURSIVE CallsFor(_, _)
CallsFor(issued, id) ==
    IF issued = <<>> THEN <<>>
    ELSE (IF Head(issued).id = id THEN <<Head(issued)>> ELSE <<>>) \o CallsFor(Tail(issued), id)

\* C2: a sync cycle in which every call succeeds has issued, for each product
\* id, exactly the one call of the diff of baseline and current cart (remove,
\* add or update) and none for an id with equal quantity, and has set the
\* baseline to the current cart.
C2_CycleIssuesTheDiff ==
    (ev.cyc # <<>> /\ ev.cyc[1].allOk)
    => /\ \A id \in Products :
            CallsFor(ev.cyc[1].calls, id) = ExpectedCalls(ev.cyc[1].base, ev.cyc[1].cur, id)
       /\ lastSyncedItemsRef = ev.cyc[1].cur

\* a cycle like the spec's example ended: one id unchanged, one id added
C2_Witness ==
    /\ ev.cyc # <<>> /\ ev.cyc[1].allOk
    /\ Len(ev.cyc[1].calls) = 1
    /\ ev.cyc[1].calls[1].kind = "add"
    /\ ev.cyc[1].base # <<>>
    /\ Len(ev.cyc[1].cur) = Len(ev.cyc[1].base) + 1

\* ---------------------------------------------------------------- C3
\* C3 (as the spec states it): when a load that pushed a non-empty guest cart
\* to the merge endpoint ends with both the push and the fetch succeeding, the
\* cart and the baseline are the additive merge of that guest cart and the
\* server cart of before the login.
C3_LoginYieldsAdditiveMerge ==
    (/\ ev.name = "FetchDone" /\ ev.res = "ok"
     /\ ev.load[1].pushed /\ ev.load[1].pushRes = "ok")
    => /\ \A id \in Products :
            QtyOf(items, id) = QtyOf(ev.load[1].localCart, id) + ev.load[1].srv0[id]
       /\ lastSyncedItemsRef = items

\* ---------------------------------------------------------------- C4
\* C4 (as the spec states it): when a call of a sync batch comes back
\* unauthorized, the session is cleared (user dropped, credentials removed),
\* the cart is cleared, a session-expired notification is raised and no sync
\* call is in flight or scheduled.
C4_UnauthorizedSyncCallForcesLogout ==
    (ev.name = "SyncCallDone" /\ ev.res \in {"http401", "unauthErr"})
    => /\ user = "none" /\ authTokens = NoTokens /\ ~userLS
       /\ items = <<>>
       /\ ev.toast = "sessionExpired"
       /\ cycles = <<>> /\ debounceTimeout = <<>>

\* ---------------------------------------------------------------- C5
\* C5 (as the spec states it): the backend applies at most one merge push in
\* one login lifetime, however many cart loads the lifetime has.
C5_OneMergePerLifetime == mergesApplied <= 1

\* ---------------------------------------------------------------- C6
\* C6 (as the spec states it): when the merge push or the canonical fetch of a
\* load fails, the pre-merge local cart is both the cart and the baseline and
\* the mergeCompleted flag is not set.
C6_FailedLoadLeavesFlagUnset ==
    (\/ ev.name = "MergeDone" /\ ev.res = "netErr"
     \/ ev.name = "FetchDone" /\ ev.res # "ok")
    => /\ items = ev.load[1].localCart
       /\ lastSyncedItemsRef = ev.load[1].localCart
       /\ ~cartMerged

\* C6 (amended): when the merge push rejects or the canonical fetch fails, the
\* pre-merge local cart is both the cart and the baseline, and the failure
\* leaves the mergeCompleted flag as it was.
C6_FailedLoadFallsBack ==
    [][(\/ ev'.name = "MergeDone" /\ ev'.res = "netErr"
        \/ ev'.name = "FetchDone" /\ ev'.res # "ok")
       => /\ items' = ev'.load[1].localCart
          /\ lastSyncedItemsRef' = ev'.load[1].localCart
          /\ cartMerged' = cartMerged]_vars

\* the fetch of a load failed after its push had returned: the local cart is
\* kept and the flag is set
C6_Witness ==
    /\ ev.name = "FetchDone" /\ ev.res # "ok"
    /\ ev.load[1].pushed /\ ev.load[1].pushRes = "ok"
    /\ items = ev.load[1].localCart /\ items # <<>>
    /\ cartMerged

\* ---------------------------------------------------------------- C7
\* C7 (as the spec states it): whenever the mergeCompleted flag is set, a merge
\* push of the same login lifetime has succeeded before.
C7_FlagOnlyAfterSuccessfulPush == cartMerged => mergeOkInLife

\* ---------------------------------------------------------------- C8
\* what a refreshToken call that has returned at once returned
ReturnedAtOnce(e) ==
    CASE e.res = "limitedTrue" -> <<TRUE>>
      [] e.res \in {"limitedFalse", "retFalse"} -> <<FALSE>>
      [] OTHER -> <<>>

\* C8 (as the spec states it): of two refreshToken calls whose start times are
\* less than the cooldown apart, the later issues no network call and returns
\* the current authentication status.
C8_LaterCallIssuesNoNetworkCall ==
    [][(/\ ev'.name = "refreshToken"
        /\ lastCallAt >= 0 /\ now - lastCallAt < Cooldown)
       => /\ refreshes' = refreshes
          /\ ReturnedAtOnce(ev') = <<IsAuth>>]_vars

\* C8 (amended): a refreshToken call that starts less than the cooldown after
\* the start of the latest call that was not itself rate-limited issues no
\* network call and returns the current authentication status; so of two calls
\* less than the cooldown apart at most one issues network calls.
C8_CallWithinCooldownOfAttempt ==
    [][(/\ ev'.name = "refreshToken"
        /\ lastFullAt >= 0 /\ now - lastFullAt < Cooldown)
       => /\ refreshes' = refreshes
          /\ ev'.res = (IF IsAuth THEN "limitedTrue" ELSE "limitedFalse")
          /\ lastRefreshAttempt' = lastRefreshAttempt]_vars

\* a second call, one tick after a first whose profile call is still in
\* flight, has returned true at once
C8_Witness ==
    /\ ev.name = "refreshToken" /\ ev.res = "limitedTrue"
    /\ lastFullAt >= 0 /\ lastCallAt > lastFullAt /\ lastCallAt - lastFullAt < Cooldown
    /\ refreshes # <<>>

\* ---------------------------------------------------------------- C9
\* C9: in every reachable state every item of the cart has a quantity of at
\* least 1 and no two items share a product id.
C9_CartWellFormed ==
    /\ \A i \in 1..Len(items) : items[i].q >= 1
    /\ \A i, j \in 1..Len(items) : items[i].id = items[j].id => i = j

\* updateQuantity has just acted on a cart of two items, one held more than once
C9_Witness ==
    /\ ev.name = "updateQuantity"
    /\ Len(items) = 2
    /\ \E i \in 1..2 : items[i].q >= 2

\* --------------------------------------------------------------- C10
\* C10: at most one sync cycle executes at any time, and while one executes
\* the single-flight flag stays taken and no debounce timer is pending, so no
\* second cycle can start before the first has ended.
C10_SingleFlight ==
    /\ Len(cycles) <= 1
    /\ cycles # <<>> => (syncingRef /\ debounceTimeout = <<>>)

\* a mutation has arrived while a cycle awaits a call
C10_Witness ==
    /\ Len(cycles) = 1
    /\ ev.name \in MutationEvents
    /\ IsAuth /\ ~initialLoadRef
    /\ items # cycles[1].cur

\* --------------------------------------------------------------- C11
\* outcomes in which the awaited promise rejects
RejectedResults == {"netErr", "unauthErr"}

\* C11 (as the spec states it): when an operation of a sync batch is
\* rejected, no further operation of that batch is issued, the baseline has
\* the value it had before the cycle, and the single-flight flag is released.
C11_RejectionRestoresBaseline ==
    [][\A i \in 1..Len(cycles) :
          (/\ ev'.name = "SyncCallDone" /\ ev'.res \in RejectedResults
           /\ cycles' = RemoveAt(cycles, i))
          => /\ ~syncingRef'
             /\ lastSyncedItemsRef' = cycles[i].base]_vars

\* C11 (amended): when an operation of a sync batch is rejected, no further
\* operation of that batch is issued, the single-flight flag is released and
\* the cycle does not advance the baseline: the baseline keeps the value it
\* had when the operation was rejected, except that a rejection naming
\* 'Unauthorized' during a session forces logout, which empties it.
C11_RejectionAbortsBatch ==
    [][(ev'.name = "SyncCallDone" /\ ev'.res \in RejectedResults)
       => /\ \E i \in 1..Len(cycles) : cycles' = RemoveAt(cycles, i)
          /\ ~syncingRef'
          /\ lastSyncedItemsRef' =
                 IF ev'.res = "unauthErr" /\ IsAuth THEN <<>> ELSE lastSyncedItemsRef]_vars

\* a call of a batch has just been rejected; the cart differs from the
\* baseline, which the cycle has not advanced
C11_Witness ==
    /\ ev.name = "SyncCallDone" /\ ev.res = "netErr"
    /\ cycles = <<>> /\ ~syncingRef
    /\ IsAuth /\ items # lastSyncedItemsRef

\* --------------------------------------------------------------- C12
\* C12: the first cart materialization after a page or session load (from
\* merge, from plain fetch, or from the failure fallback) arms no debounce
\* timer and does not take the single-flight flag.
C12_FirstMaterializationStartsNoCycle ==
    [][(/\ ev'.name \in {"FetchDone", "MergeDone"}
        /\ initialLoadRef /\ ~initialLoadRef')
       => /\ debounceTimeout' = <<>>
          /\ syncingRef' = syncingRef]_vars

\* --------------------------------------------------------------- C13
\* arr lists exactly the backend's cart
IsBackendCart(arr, srv) ==
    /\ \A id \in Products : QtyOf(arr, id) = srv[id]
    /\ Len(arr) = Cardinality({id \in Products : srv[id] > 0})

\* C13: whenever a cart load that started while authenticated completes with
\* a successful fetch, the cart and the baseline both equal the fetched
\* backend cart, whether or not a merge push preceded the fetch.
C13_SuccessfulFetchIsAdopted ==
    [][(ev'.name = "FetchDone" /\ ev'.res = "ok")
       => /\ IsBackendCart(items', server')
          /\ lastSyncedItemsRef' = items']_vars

\* a load whose merge push preceded the fetch has just adopted a non-empty
\* backend cart
C13_Witness ==
    /\ ev.name = "FetchDone" /\ ev.res = "ok"
    /\ ev.load[1].pushed
    /\ items # <<>> /\ IsBackendCart(items, server) /\ lastSyncedItemsRef = items

\* --------------------------------------------------------------- C14
\* C14: a logout leaves the cart empty, the baseline empty and the
\* mergeCompleted flag cleared, and the next login with a non-empty guest cart
\* issues the merge push again.
C14_LogoutResetsAndNextLoginMerges ==
    [][/\ (IsAuth /\ user' = "none")
          => (items' = <<>> /\ lastSyncedItemsRef' = <<>> /\ ~cartMerged')
       /\ (~IsAuth /\ user' # "none" /\ items # <<>>)
          => (/\ Len(loads') = Len(loads) + 1
              /\ loads'[Len(loads')].pc = "merge")]_vars

\* --------------------------------------------------------------- C15
\* C15: after a failed background token renewal the stored credentials are
\* removed, the in-memory user is null and no renewal interval is live.
C15_FailedRenewalCancelsInterval ==
    [][(ev'.name = "ExchangeDone" /\ ev'.by = "renewal" /\ ev'.res = "retFalse")
       => /\ authTokens' = NoTokens
          /\ user' = "none"
          /\ intervals' = {}]_vars

\* --------------------------------------------------------------- C16
\* C16: a refreshToken call of a session that was not rate-limited and in
\* which neither the profile validation nor the exchange of the refresh
\* credential succeeded (also when no refresh credential is stored) ends with
\* the credentials removed and the user null, and returns false.
C16_FailedRefreshForcesLogout ==
    [][(/\ IsAuth
        /\ \/ ev'.name = "refreshToken" /\ ev'.res = "retFalse"
           \/ ev'.name = "ProfileDone" /\ (ev'.res = "retFalse" \/ user' = "errBody")
           \/ ev'.name = "ExchangeDone" /\ ev'.by = "refreshToken" /\ ev'.res = "retFalse")
       => /\ user' = "none"
          /\ authTokens' = NoTokens
          /\ ev'.res = "retFalse"]_vars

\* --------------------------------------------------------------- C17
\* C17: in every state after initialization with a non-null user a renewal
\* interval is live.
C17_UserImpliesRenewalInterval ==
    (isInitialized /\ user # "none") => intervals # {}

\* --------------------------------------------------------------- C18
\* C18: checkout issues create-order only after refreshToken has returned
\* true in the same attempt, and clears the cart only after create-order has
\* succeeded; when the refresh fails or create-order fails, the cart is left
\* unchanged.
C18_CheckoutOrderOfEffects ==
    [][/\ (Len(orders') > Len(orders))
          => ev'.res \in {"limitedTrue", "retTrue"}
       /\ (ev'.name = "CreateOrderDone" /\ ev'.res # "ok")
          => (items' = items /\ cartLS' = cartLS)
       /\ (ev'.toast = "checkoutSessionExpired")
          => items' = items]_vars

\* --------------------------------------------------------------- C19
\* C19: a checkout attempt with an empty cart issues no network call, raises
\* a user-visible message and leaves the cart unchanged.
C19_EmptyCartCheckoutIssuesNoCall ==
    [][(ev'.name = "processCheckout" /\ items = <<>>)
       => /\ refreshes' = refreshes /\ orders' = orders
          /\ ev'.toast # "none"
          /\ items' = items]_vars

\* --------------------------------------------------------------- C20
\* C20: loading the cart never raises; when the stored cart snapshot is
\* malformed, the load works with an empty cart (nothing of the snapshot is
\* pushed or adopted) and the corrupt record is no longer in storage.
MalformedSnapshot(rec) ==
    /\ rec.present
    /\ \/ ~rec.ok
       \/ \E i \in 1..Len(rec.arr) : rec.arr[i][2] < 1

C20_MalformedSnapshotLoadsEmpty ==
    [][(~isInitialized /\ isInitialized' /\ MalformedSnapshot(cartLS))
       => /\ \A i \in 1..Len(loads') : loads'[i].localCart = <<>>
          /\ (loads' = <<>> => items' = <<>>)
          /\ cartLS' # cartLS]_vars

\* --------------------------------------------------------------- C21
\* C21: a load that finds the checkoutComplete flag set yields an empty cart
\* and an empty baseline, leaves no item in the stored snapshot, clears the
\* merge flag and the checkout flag, and starts neither a merge push nor a
\* fetch; the flag is consumed, so it is never set once the cart is mounted
\* and a later load takes the normal path.
C21_CheckoutFlagResetsOnce ==
    [][/\ (~isInitialized /\ isInitialized' /\ checkoutComplete)
          => /\ items' = <<>>
             /\ lastSyncedItemsRef' = <<>>
             /\ ReadStoredCart(cartLS').cart = <<>>
             /\ ~cartMerged'
             /\ ~checkoutComplete'
             /\ loads' = <<>>
       /\ isInitialized' => ~checkoutComplete'
       /\ (isInitialized /\ ev'.name = "signIn" /\ ev'.res = "ok")
          => loads' # <<>>]_vars

C21_Witness ==
    /\ ev.name = "signIn" /\ ev.res = "ok"
    /\ clears > 0
    /\ loads # <<>>

\* --------------------------------------------------------------- C22
\* C22: clearCart leaves the cart empty, leaves no item in the stored cart
\* snapshot and leaves the merge flag and the checkout flag unset, whatever
\* the state before the call.
C22_ClearEmptiesCartAndFlags ==
    [][ev'.name = "clearCart"
       => /\ items' = <<>>
          /\ ReadStoredCart(cartLS').cart = <<>>
          /\ ~cartMerged'
          /\ ~checkoutComplete']_vars

C22_Witness ==
    /\ ev.name = "clearCart"
    /\ mergeOkInLife
    /\ ~cartMerged

\* --------------------------------------------------------------- C23
\* C23: a guest's cart survives a reload: after a page load while
\* unauthenticated the cart equals the guest cart stored before it.
C23_GuestCartSurvivesReload ==
    [][ev'.name = "loadUser" /\ ev'.res = "noSession"
       => items' = ReadStoredCart(cartLS).cart]_vars

\* --------------------------------------------------------------- C24
\* C24: for a well-formed cart, loading the snapshot the save effect wrote
\* for it yields the same cart: parsing the text written for the current
\* items gives the items back, and the load a sign-in starts reads from
\* storage exactly the cart the guest had.
C24_SaveThenLoadRoundTrip ==
    [][/\ ReadStoredCart(Stringify(items')).cart = items'
       /\ (ev'.name = "signIn" /\ ev'.res = "ok")
          => /\ loads' # <<>>
             /\ loads'[Len(loads')].localCart = items]_vars

C24_Witness ==
    /\ ev.name = "signIn" /\ ev.res = "ok"
    /\ loads # <<>>
    /\ Len(loads[Len(loads)].localCart) = 2
    /\ \E i \in 1..2 : loads[Len(loads)].localCart[i].q = 2

\* ----------------------------------------------------------- C25, C26
\* the quantities tried on every reachable cart: below zero, zero, and
\* positive ones
TriedQuantities == (0 - 1)..(MaxQty + 1)

\* --------------------------------------------------------------- C25
\* C25: updateQuantity(id, q) called twice with the same q leaves the cart
\* after the second call identical to the cart after the first, for every
\* cart, id and q, q <= 0 and ids not in the cart included.
C25_UpdateQuantityIdempotent ==
    \A id \in Products, q \in TriedQuantities :
        LET once == updateQuantityUpdater(items, id, q)
        IN  updateQuantityUpdater(once, id, q) = once

C25_Witness ==
    /\ ev.name = "updateQuantity"
    /\ QtyOf(lastSyncedItemsRef, ProductOrder[1]) = 2
    /\ QtyOf(items, ProductOrder[1]) = 1
    /\ ~HasId(items, ProductOrder[2])

\* --------------------------------------------------------------- C26
\* C26: updateQuantity(id, q) with q <= 0 gives the cart removeItem(id)
\* gives, which is the cart without the item of that id; with q >= 1 it sets
\* the quantity of an existing item to q, changes no other item, and adds no
\* item for an id that is not in the cart.
C26_UpdateQuantityRemovesOrSets ==
    \A id \in Products, q \in TriedQuantities :
        LET new == updateQuantityUpdater(items, id, q)
        IN  IF q <= 0
            THEN /\ new = removeItemUpdater(items, id)
                 /\ new = SelectSeq(items, LAMBDA it : it.id # id)
            ELSE /\ Len(new) = Len(items)
                 /\ \A i \in 1..Len(items) :
                        /\ new[i].id = items[i].id
                        /\ new[i].q = IF items[i].id = id THEN q ELSE items[i].q

C26_Witness ==
    /\ ev.name = "updateQuantity"
    /\ HasId(lastSyncedItemsRef, ProductOrder[1])
    /\ ~HasId(items, ProductOrder[1])
    /\ Len(items) = 1

\* --------------------------------------------------------------- C27
\* C27: addItem(product, qty) on a cart that contains the product increases
\* that item's quantity by qty and leaves every other item unchanged; on a
\* cart that does not contain it, it appends one item with quantity qty.
C27_AddItemAccumulatesOrAppends ==
    \A id \in Products, q \in 1..(MaxQty + 1) :
        LET new == addItemUpdater(items, id, q)
        IN  IF HasId(items, id)
            THEN /\ Len(new) = Len(items)
                 /\ \A i \in 1..Len(items) :
                        /\ new[i].id = items[i].id
                        /\ new[i].q = IF items[i].id = id THEN items[i].q + q
                                                          ELSE items[i].q
            ELSE new = items \o <<Item(id, q)>>

C27_Witness ==
    /\ ev.name = "addItem"
    /\ Len(items) = 2
    /\ QtyOf(items, ProductOrder[1]) = 2
    /\ QtyOf(items, ProductOrder[2]) = 1
    /\ user = "none"

\* --------------------------------------------------------------- C28
\* C28: no sync call is issued for a cart change made while unauthenticated
\* or before the initial load has completed: a cycle that has calls to issue
\* starts only while a user is signed in and no load of this login is still
\* awaiting the network.
C28_CycleOnlyAfterInitialLoad ==
    [][(ev'.name = "TimerFires" /\ ev'.res = "started")
       => /\ user # "none"
          /\ \A i \in 1..Len(loads) : loads[i].stale]_vars

\* --------------------------------------------------------------- C29
\* the calls the cycle that this step starts issues
IssuedByNewCycle == IF ev'.res = "started" THEN cycles'[Len(cycles')].calls ELSE <<>>

\* every call of the aborted batch that had returned, for an id whose cart
\* quantity has not changed, is among the calls of the cycle this step starts
ReissuesReturnedCalls ==
    \A k \in 1..Len(aborted[1].done) :
        LET c == aborted[1].done[k]
        IN  QtyOf(debounceTimeout[1], c.id) = QtyOf(aborted[1].cur, c.id)
            => \E j \in 1..Len(IssuedByNewCycle) : IssuedByNewCycle[j] = c

\* C29: after a sync cycle was aborted by a rejected operation, the next
\* cycle diffs against the unchanged old baseline and issues again the
\* operations of the aborted batch that had already succeeded, for the ids
\* whose cart quantity has not changed in between.
C29_AbortedBatchIsReissued ==
    [][(/\ ev'.name = "TimerFires"
        /\ aborted # <<>> /\ aborted[1].again = <<>>)
       => /\ lastSyncedItemsRef = aborted[1].base
          /\ ReissuesReturnedCalls]_vars

\* C29 (amended): a rejection that does not name 'Unauthorized' aborts the
\* cycle and leaves the baseline as it was; when the baseline is still the
\* one the aborted cycle diffed against as the next cycle starts, that cycle
\* issues again every call of the aborted batch that had returned, for the
\* ids whose cart quantity has not changed in between.
C29_AbortedBatchIsReissuedOnOldBaseline ==
    [][/\ (ev'.name = "SyncCallDone" /\ ev'.res = "netErr")
          => lastSyncedItemsRef' = lastSyncedItemsRef
       /\ (/\ ev'.name = "TimerFires"
           /\ aborted # <<>> /\ aborted[1].again = <<>>
           /\ aborted[1].res = "netErr"
           /\ lastSyncedItemsRef = aborted[1].base)
          => ReissuesReturnedCalls]_vars

\* the cycle after an aborted one has issued again a call that had returned
C29_Witness ==
    /\ ev.name = "TimerFires" /\ ev.res = "started"
    /\ aborted # <<>> /\ aborted[1].again # <<>>
    /\ aborted[1].res = "netErr"
    /\ lastSyncedItemsRef = aborted[1].base
    /\ \E k \in 1..Len(aborted[1].done), j \in 1..Len(aborted[1].again[1]) :
          aborted[1].again[1][j] = aborted[1].done[k]

\* --------------------------------------------------------------- C30
CartOperations == {"addItem", "removeItem", "updateQuantity", "clearCart"}

\* C30: a cart change made while a sync cycle is in flight starts no second
\* cycle and arms no timer; the cycle of the next trigger diffs the cart as
\* it then is against the baseline, so it has a call for every id whose
\* quantity in the cart differs from the baseline, the ids changed during
\* the earlier cycle included.
C30_ChangeInFlightWaitsForNextCycle ==
    [][/\ (ev'.name \in CartOperations /\ cycles # <<>>)
          => /\ cycles' = cycles
             /\ debounceTimeout' = <<>>
       /\ (ev'.name = "TimerFires")
          => /\ debounceTimeout[1] = items
             /\ \A id \in Products :
                   QtyOf(items, id) # QtyOf(lastSyncedItemsRef, id)
                   => /\ ev'.res = "started"
                      /\ \E j \in 1..Len(cycles'[Len(cycles')].calls) :
                            cycles'[Len(cycles')].calls[j].id = id]_vars

\* a cart operation has changed the cart while a cycle is in flight
C30_Witness ==
    /\ ev.name \in CartOperations
    /\ Len(cycles) = 1
    /\ items # cycles[1].cur
    /\ debounceTimeout = <<>>
    /\ syncingRef

\* --------------------------------------------------------------- C31
\* a load that starts now would push the stored snapshot to the merge
\* endpoint: the snapshot has items and the merge flag is not set
SnapshotPushable(rec, merged) == Len(ReadStoredCart(rec).cart) > 0 /\ ~merged

\* C31: after a successful merge-and-fetch on login, once the load and the
\* render it causes have settled, storage holds no cart snapshot that a later
\* load could push to the merge endpoint.
C31_NoPushableSnapshotAfterMergeAndFetch ==
    [][(/\ ev'.name = "FetchDone" /\ ev'.res = "ok"
        /\ ev'.load # <<>> /\ ev'.load[1].pushed /\ ev'.load[1].pushRes = "ok")
       => ~SnapshotPushable(cartLS', cartMerged')]_vars

\* --------------------------------------------------------------- C32
\* C32: when a logout happened while a sync cycle was in flight, the
\* completion of a call of that cycle has no effect: the cycle issues no
\* further call of its batch and the baseline the logout emptied stays as it
\* is.
C32_CycleAfterLogoutIsMoot ==
    [][(ev'.name = "SyncCallDone" /\ user = "none")
       => /\ \E i \in 1..Len(cycles) : cycles' = RemoveAt(cycles, i)
          /\ lastSyncedItemsRef' = lastSyncedItemsRef]_vars

C34_FlagOnlyWithTimerOrCycle ==
    syncingRef => (debounceTimeout # <<>> \/ cycles # <<>>)

\* --------------------------------------------------------------- C35
\* the backend's cart holds exactly the items of this cart
ServerHolds(srv, cart) == \A id \in Products : srv[id] = QtyOf(cart, id)

\* C35: when the backend's cart equals the baseline as a sync cycle starts
\* and every call of the cycle succeeds, the backend's cart equals the cart
\* the cycle diffed when the cycle ends.
C35_CycleBringsServerToCart ==
    [][(/\ ev'.name \in {"SyncCallDone", "TimerFires"}
        /\ ev'.cyc # <<>>
        /\ ev'.cyc[1].allOk
        /\ ServerHolds(ev'.cyc[1].srv0, ev'.cyc[1].base))
       => ServerHolds(server', ev'.cyc[1].cur)]_vars

\* --------------------------------------------------------------- C36
\* C36: a reload while authenticated never pushes to the merge endpoint a
\* snapshot of items that came from the server or were already synced: the
\* load that CartProvider starts when it mounts after the reload pushes no
\* cart that the backend's cart already holds item for item.
C36_ReloadPushesNoSyncedItems ==
    [][(~isInitialized /\ isInitialized')
       => \A i \in 1..Len(loads') :
             loads'[i].pushed => ~ServerHolds(loads'[i].srv0, loads'[i].localCart)]_vars

\* --------------------------------------------------------------- C37
\* C37: a cart mutation made while a cart load is in flight is not lost: when
\* getUserCart answers right after an addItem of the signed-in user, every
\* product that the cart holds and that the load did not read from storage is
\* still in the cart afterwards, or is in the backend's cart.
C37_MutationDuringLoadIsKept ==
    [][(/\ ev.name = "addItem"
        /\ ev'.name = "FetchDone" /\ ev'.res = "ok"
        /\ user # "none"
        /\ ev'.load # <<>> /\ ~ev'.load[1].stale)
       => \A id \in Products :
             (HasId(items, id) /\ ~HasId(ev'.load[1].localCart, id))
                => (HasId(items', id) \/ server'[id] > 0)]_vars

\* --------------------------------------------------------------- C38
\* C38: a failed sign-in leaves the session state unchanged: it writes no
\* credentials record to localStorage and the user stays null.
C38_FailedSignInChangesNothing ==
    [][(ev'.name = "signIn" /\ ev'.res # "ok")
       => (authTokens' = authTokens /\ user' = user /\ userLS' = userLS)]_vars

\* --------------------------------------------------------------- C39
\* no call of the sequence follows a call that is not a remove-item call
\* unless it is itself not one
RemovesFirst(calls) ==
    \A j, k \in 1..Len(calls) :
        (j < k /\ calls[k].kind = "remove") => calls[j].kind = "remove"

\* C39: within one sync cycle the calls are issued one at a time, each
\* awaited before the next is issued, and every remove-item call of the cycle
\* is issued before any add-item or update-quantity call of it: a cycle awaits
\* exactly one call of its sequence, an answer moves it on by one call, and
\* the sequences of running and of ended cycles have their removes first.
C39_OneCallAtATimeRemovesFirst ==
    [][/\ \A i \in 1..Len(cycles') :
              /\ cycles'[i].next \in 1..Len(cycles'[i].calls)
              /\ RemovesFirst(cycles'[i].calls)
       /\ (ev'.name = "SyncCallDone" /\ Len(cycles') = Len(cycles))
             => \E i \in 1..Len(cycles) :
                   /\ cycles'[i].next = cycles[i].next + 1
                   /\ \A j \in 1..Len(cycles) : j # i => cycles'[j] = cycles[j]
       /\ ev'.cyc # <<>> => RemovesFirst(ev'.cyc[1].calls)]_vars

\* a cycle that removes one product and adds another has had its remove
\* answered and awaits its add
C39_Witness ==
    \E i \in 1..Len(cycles) :
        /\ Len(cycles[i].calls) = 2
        /\ cycles[i].calls[1].kind = "remove"
        /\ cycles[i].calls[2].kind = "add"
        /\ cycles[i].next = 2

====
